---- MODULE Spec2Model ----
(***************************************************************************)
(* Model of the relationship engine of parse.py (PANLogProcessor).         *)
(*                                                                         *)
(* Text is modelled as a sequence of atoms.  An atom stands for a run of   *)
(* characters that no pattern of the program ever cuts in two: a keyword   *)
(* piece ("set", "address", "-group", "destination", ...), one blank       *)
(* (" "), a bracket, a double quote, a piece of a name, or an IP/netmask   *)
(* literal.  Substring tests, split, strip and the regular expressions of  *)
(* PATTERNS are computed on these sequences the way Python computes them   *)
(* on characters.                                                          *)
(***************************************************************************)
EXTENDS Integers, Sequences, FiniteSets, TLC

(***************************************************************************)
(* Python string primitives                                                *)
(***************************************************************************)

\* one blank character
SP == " "

\* the double quote character
QUOTE == "\""

\* Python None for an optional value: <<>> is None, <<v>> is the value v
None == <<>>

Some(v) == <<v>>

\* s[i] as an atom, or the empty atom beyond the ends of s
At(s, i) == IF i \in 1..Len(s) THEN s[i] ELSE ""

\* s[i-1:j-1] for 1-based i, j (empty when j < i)
Slice(s, i, j) == IF j < i THEN <<>> ELSE SubSeq(s, i, j)

\* s.startswith(p)
StartsWith(s, p) == Len(p) <= Len(s) /\ Slice(s, 1, Len(p)) = p

\* s.endswith(p)
EndsWith(s, p) == Len(p) <= Len(s) /\ Slice(s, Len(s) - Len(p) + 1, Len(s)) = p

\* does x occur in s at position i
OccursAt(s, x, i) == i >= 1 /\ i + Len(x) - 1 <= Len(s) /\ Slice(s, i, i + Len(x) - 1) = x

\* the positions at which x occurs in s
Occurrences(s, x) == {i \in 1..(Len(s) + 1) : OccursAt(s, x, i)}

\* the least element of a non-empty set of integers
Min(S) == CHOOSE m \in S : \A n \in S : m <= n

\* s.find(x) + 1: the first position of x in s, 0 when x does not occur
Find(s, x) == IF Occurrences(s, x) = {} THEN 0 ELSE Min(Occurrences(s, x))

\* x in s
Contains(s, x) == Occurrences(s, x) # {}

\* s.split(k)[0] for a non-empty k: the text before the first k
SplitHead(s, k) == IF Find(s, k) = 0 THEN s ELSE Slice(s, 1, Find(s, k) - 1)

\* the text after the first k (only used when k occurs in s)
AfterFirst(s, k) == Slice(s, Find(s, k) + Len(k), Len(s))

\* s.split(k)[1] when k occurs in s: the text between the first and the second k
SplitSecond(s, k) == SplitHead(AfterFirst(s, k), k)

\* s.lstrip() on blanks
RECURSIVE LStrip(_)
LStrip(s) == IF s # <<>> /\ Head(s) = SP THEN LStrip(Tail(s)) ELSE s

\* s.rstrip() on blanks
RECURSIVE RStrip(_)
RStrip(s) == IF s # <<>> /\ s[Len(s)] = SP THEN RStrip(Slice(s, 1, Len(s) - 1)) ELSE s

\* s.strip()
Strip(s) == RStrip(LStrip(s))

\* s.split(): the maximal blank-free runs of s, in order
RECURSIVE SplitWords(_)
SplitWords(s) ==
    LET t == LStrip(s)
        n == IF Find(t, <<SP>>) = 0 THEN Len(t) ELSE Find(t, <<SP>>) - 1
    IN  IF t = <<>> THEN <<>>
        ELSE <<Slice(t, 1, n)>> \o SplitWords(Slice(t, n + 1, Len(t)))

\* " ".join(words)
RECURSIVE Join(_)
Join(words) ==
    IF words = <<>> THEN <<>>
    ELSE IF Len(words) = 1 THEN words[1]
    ELSE words[1] \o <<SP>> \o Join(Tail(words))

(***************************************************************************)
(* Regular expressions (module re), restricted to the constructs PATTERNS  *)
(* uses.  A pattern is a sequence of elements.  Matching is greedy and     *)
(* needs no backtracking on these patterns when the subject is a stripped  *)
(* line: after \s+ comes a non-blank, after \S+ comes \s+ or the end,      *)
(* after [^"]+ comes the quote.                                            *)
(***************************************************************************)

\* the atoms that are IP/netmask literals, i.e. match [\d\.]+/\d+ as a whole
IpLiterals == {"10.0.0.1/32", "10.0.0.2/32"}

\* a literal atom
L(a) == [t |-> "lit", a |-> a, cap |-> FALSE, l |-> <<>>, r |-> <<>>]

\* \s+
WS == [t |-> "ws", a |-> "", cap |-> FALSE, l |-> <<>>, r |-> <<>>]

\* (\S+)
NWS == [t |-> "nws", a |-> "", cap |-> TRUE, l |-> <<>>, r |-> <<>>]

\* \S+ outside a capturing group
NWS0 == [t |-> "nws", a |-> "", cap |-> FALSE, l |-> <<>>, r |-> <<>>]

\* (.+)
REST == [t |-> "rest", a |-> "", cap |-> TRUE, l |-> <<>>, r |-> <<>>]

\* ([^"]+)
NQ == [t |-> "nq", a |-> "", cap |-> TRUE, l |-> <<>>, r |-> <<>>]

\* ([\d\.]+/\d+)
IPNM == [t |-> "ip", a |-> "", cap |-> TRUE, l |-> <<>>, r |-> <<>>]

\* (?:l|r)
ALT(l, r) == [t |-> "alt", a |-> "", cap |-> FALSE, l |-> l, r |-> r]

\* the first position at or after i that holds no blank
RECURSIVE SkipWs(_, _)
SkipWs(s, i) == IF At(s, i) = SP THEN SkipWs(s, i + 1) ELSE i

\* the first position at or after i that holds a blank or is past the end
RECURSIVE SkipNonWs(_, _)
SkipNonWs(s, i) == IF i <= Len(s) /\ s[i] # SP THEN SkipNonWs(s, i + 1) ELSE i

\* the first position at or after i that holds a quote or is past the end
RECURSIVE SkipNonQuote(_, _)
SkipNonQuote(s, i) == IF i <= Len(s) /\ s[i] # QUOTE THEN SkipNonQuote(s, i + 1) ELSE i

\* pattern.match at position i: None, or Some(the captured groups)
RECURSIVE MatchFrom(_, _, _, _)
MatchFrom(pat, s, i, caps) ==
    IF pat = <<>> THEN Some(caps)
    ELSE
      LET e == Head(pat)
          rest == Tail(pat)
      IN  CASE e.t = "lit" ->
                 IF At(s, i) = e.a THEN MatchFrom(rest, s, i + 1, caps) ELSE None
            [] e.t = "ws" ->
                 IF SkipWs(s, i) > i THEN MatchFrom(rest, s, SkipWs(s, i), caps) ELSE None
            [] e.t = "nws" ->
                 LET j == SkipNonWs(s, i)
                 IN  IF j > i
                     THEN MatchFrom(rest, s, j,
                                    IF e.cap THEN Append(caps, Slice(s, i, j - 1)) ELSE caps)
                     ELSE None
            [] e.t = "nq" ->
                 LET j == SkipNonQuote(s, i)
                 IN  IF j > i
                     THEN MatchFrom(rest, s, j, Append(caps, Slice(s, i, j - 1)))
                     ELSE None
            [] e.t = "rest" ->
                 IF i <= Len(s)
                 THEN MatchFrom(rest, s, Len(s) + 1, Append(caps, Slice(s, i, Len(s))))
                 ELSE None
            [] e.t = "ip" ->
                 IF At(s, i) \in IpLiterals
                 THEN MatchFrom(rest, s, i + 1, Append(caps, <<s[i]>>))
                 ELSE None
            [] e.t = "alt" ->
                 LET m == MatchFrom(e.l \o rest, s, i, caps)
                 IN  IF m # None THEN m ELSE MatchFrom(e.r \o rest, s, i, caps)

\* pattern.search(s) from position i on: the leftmost match
RECURSIVE SearchFrom(_, _, _)
SearchFrom(pat, s, i) ==
    IF i > Len(s) THEN None
    ELSE LET m == MatchFrom(pat, s, i, <<>>)
         IN  IF m # None THEN m ELSE SearchFrom(pat, s, i + 1)

\* pattern.search(s): None, or Some(match.groups())
Search(pat, s) == SearchFrom(pat, s, 1)

\* the pre-compiled patterns
PATTERNS ==
    [ security_rule_quoted    |-> <<L("security"), L("-rule"), WS, L(QUOTE), NQ, L(QUOTE)>>,
      security_rule_unquoted  |-> <<L("security"), L("-rule"), WS, NWS>>,
      security_rules_quoted   |-> <<L("security"), WS, L("rules"), WS, L(QUOTE), NQ, L(QUOTE)>>,
      security_rules_unquoted |-> <<L("security"), WS, L("rules"), WS, NWS>>,
      device_group            |-> <<L("device"), L("-group"), WS, NWS>>,
      address_group_shared    |-> <<L("set"), WS, L("shared"), WS, L("address"), L("-group"),
                                    WS, NWS, WS, L("static"), WS, REST>>,
      address_group_device    |-> <<L("set"), WS, L("device"), L("-group"), WS, NWS, WS,
                                    L("address"), L("-group"), WS, NWS, WS, L("static"),
                                    WS, REST>>,
      nat_rule                |-> <<L("nat"), L("-rule"), WS, NWS>>,
      service_group           |-> <<L("service"), L("-group"), WS, NWS>>,
      ip_netmask              |-> <<L("set"), WS,
                                    ALT(<<L("shared")>>, <<L("device"), L("-group"), WS, NWS0>>),
                                    WS, L("address"), WS, NWS, WS, L("ip-netmask"), WS, IPNM>> ]

\* re.search(r'set\s+device-group\s+(\S+)\s+address', line)
RedundantDgPattern == <<L("set"), WS, L("device"), L("-group"), WS, NWS, WS, L("address")>>

(***************************************************************************)
(* Python dict (insertion-ordered) as a sequence of <<key, value>> pairs,  *)
(* and list helpers                                                        *)
(***************************************************************************)

\* d.keys() as a set
DictKeys(d) == {d[i][1] : i \in 1..Len(d)}

\* k in d
DictHas(d, k) == k \in DictKeys(d)

\* d[k] for a key that is present
DictGet(d, k) == d[CHOOSE i \in 1..Len(d) : d[i][1] = k][2]

\* d[k] = v: a present key keeps its place, a new key goes last
DictSet(d, k, v) ==
    IF DictHas(d, k)
    THEN [i \in 1..Len(d) |-> IF d[i][1] = k THEN <<k, v>> ELSE d[i]]
    ELSE Append(d, <<k, v>>)

\* x in lst
InList(lst, x) == \E i \in 1..Len(lst) : lst[i] = x

(***************************************************************************)
(* The result table                                                        *)
(***************************************************************************)

\* the defaultdict factory of self.results
DefaultResult ==
    [ matching_lines         |-> <<>>,
      device_groups          |-> {},
      direct_rules           |-> <<>>,
      direct_rule_contexts   |-> <<>>,
      indirect_rules         |-> <<>>,
      indirect_rule_contexts |-> <<>>,
      address_groups         |-> <<>>,
      nat_rules              |-> {},
      service_groups         |-> {},
      ip_netmask             |-> None,
      redundant_addresses    |-> <<>> ]

\* the record self.results[k] evaluates to (the default when k is new)
Rec(res, k) == IF k \in DOMAIN res THEN res[k] ELSE DefaultResult

\* the table after self.results[k] was looked up and its record became r
Put(res, k, r) == [x \in (DOMAIN res) \cup {k} |-> IF x = k THEN r ELSE res[x]]

\* the table after a bare lookup self.results[k]
Touch(res, k) == Put(res, k, Rec(res, k))

(***************************************************************************)
(* Line classifier                                                         *)
(***************************************************************************)

\* the rule-name patterns in the order _extract_security_rule tries them
RulePatternOrder ==
    <<PATTERNS.security_rule_quoted, PATTERNS.security_rule_unquoted,
      PATTERNS.security_rules_quoted, PATTERNS.security_rules_unquoted>>

\* the loop over the rule patterns: the first pattern that matches names the rule
RECURSIVE FirstRuleMatch(_, _)
FirstRuleMatch(pats, line) ==
    IF pats = <<>> THEN None
    ELSE LET match == Search(Head(pats), line)
         IN  IF match # None THEN Some(match[1][1]) ELSE FirstRuleMatch(Tail(pats), line)

\* rule_name of _extract_security_rule: None or Some(name)
RuleName(line) == FirstRuleMatch(RulePatternOrder, line)

CtxDirect == <<"references directly">>

CtxDestination == <<"contains address in destination">>

CtxSource == <<"contains address in source">>

CtxService == <<"references address in service field">>

KwDestination == <<"destination">>

KwSource == <<"source">>

KwService == <<"service">>

\* the context with the source test first, the destination test second
RuleContextSourceFirst(line, address) ==
    IF Contains(line, KwSource)
       /\ Contains(SplitHead(SplitSecond(line, KwSource), KwDestination), address)
    THEN CtxSource
    ELSE IF Contains(line, KwDestination)
            /\ Contains(SplitHead(SplitSecond(line, KwDestination), KwSource), address)
    THEN CtxDestination
    ELSE IF Contains(line, KwService) /\ Contains(SplitSecond(line, KwService), address)
    THEN CtxService
    ELSE CtxDirect

\* the if/elif chain that determines the context of a rule line for an address
RuleContext(line, address) ==
    IF Contains(line, KwDestination)
       /\ Contains(SplitHead(SplitSecond(line, KwDestination), KwSource), address)
    THEN CtxDestination
    ELSE IF Contains(line, KwSource)
            /\ Contains(SplitHead(SplitSecond(line, KwSource), KwDestination), address)
    THEN CtxSource
    ELSE IF Contains(line, KwService) /\ Contains(SplitSecond(line, KwService), address)
    THEN CtxService
    ELSE CtxDirect

\* _extract_security_rule(line, address): (None, None) or (rule_name, context)
ExtractSecurityRule(line, address) ==
    LET rule_name == RuleName(line)
    IN  IF rule_name = None
        THEN [rule_name |-> None, context |-> None]
        ELSE [rule_name |-> rule_name, context |-> Some(RuleContext(line, address))]

\* the descriptor of a shared address group
SharedGroup(name, definition) ==
    [name |-> name, context |-> "shared", device_group |-> None, definition |-> definition]

\* the descriptor of a device-group address group
DeviceGroup(dg, name, definition) ==
    [name |-> name, context |-> "device-group", device_group |-> Some(dg),
     definition |-> definition]

\* _extract_address_group(line): None or Some(descriptor)
ExtractAddressGroup(line) ==
    LET ms == Search(PATTERNS.address_group_shared, line)
        md == Search(PATTERNS.address_group_device, line)
    IN  IF ms # None THEN Some(SharedGroup(ms[1][1], ms[1][2]))
        ELSE IF md # None THEN Some(DeviceGroup(md[1][1], md[1][2], md[1][3]))
        ELSE None

\* _parse_group_members(definition): the member tokens
ParseGroupMembers(definition) ==
    LET d == Strip(definition)
        inner == IF StartsWith(d, <<"[">>) /\ EndsWith(d, <<"]">>)
                 THEN Slice(d, 2, Len(d) - 1) ELSE d
    IN  SplitWords(inner)

\* the test that guards the append of a descriptor in the primary scan
GroupIsNew(groups, ag_info) == ~InList(groups, ag_info)

\* an extraction that records a direct rule without its context
ExtractItemsFromLineNoContext(result, line, address) ==
    LET dg_match == Search(PATTERNS.device_group, line)
        rule == ExtractSecurityRule(line, address)
        device_group == IF dg_match # None THEN dg_match[1][1] ELSE <<"Unknown">>
        ag_info == ExtractAddressGroup(line)
        nat_match == Search(PATTERNS.nat_rule, line)
        sg_match == Search(PATTERNS.service_group, line)
    IN  [ result EXCEPT
            !.device_groups = IF dg_match # None THEN @ \cup {dg_match[1][1]} ELSE @,
            !.direct_rules = IF rule.rule_name # None
                             THEN DictSet(@, rule.rule_name[1], device_group) ELSE @,
            !.address_groups = IF ag_info # None /\ GroupIsNew(@, ag_info[1])
                               THEN Append(@, ag_info[1]) ELSE @,
            !.nat_rules = IF nat_match # None THEN @ \cup {nat_match[1][1]} ELSE @,
            !.service_groups = IF sg_match # None THEN @ \cup {sg_match[1][1]} ELSE @ ]

\* _extract_items_from_line(line, address) on the record of address
ExtractItemsFromLine(result, line, address) ==
    LET dg_match == Search(PATTERNS.device_group, line)
        rule == ExtractSecurityRule(line, address)
        device_group == IF dg_match # None THEN dg_match[1][1] ELSE <<"Unknown">>
        ag_info == ExtractAddressGroup(line)
        nat_match == Search(PATTERNS.nat_rule, line)
        sg_match == Search(PATTERNS.service_group, line)
    IN  [ result EXCEPT
            !.device_groups = IF dg_match # None THEN @ \cup {dg_match[1][1]} ELSE @,
            !.direct_rules = IF rule.rule_name # None
                             THEN DictSet(@, rule.rule_name[1], device_group) ELSE @,
            !.direct_rule_contexts = IF rule.rule_name # None
                                     THEN DictSet(@, rule.rule_name[1], rule.context[1]) ELSE @,
            !.address_groups = IF ag_info # None /\ GroupIsNew(@, ag_info[1])
                               THEN Append(@, ag_info[1]) ELSE @,
            !.nat_rules = IF nat_match # None THEN @ \cup {nat_match[1][1]} ELSE @,
            !.service_groups = IF sg_match # None THEN @ \cup {sg_match[1][1]} ELSE @ ]

(***************************************************************************)
(* Redundancy detector                                                     *)
(***************************************************************************)

\* the scope of a redundant address, from its defining line
RedundantDg(line) ==
    LET dg_match == Search(RedundantDgPattern, line)
    IN  IF StartsWith(line, <<"set", SP, "shared">>) THEN <<"shared">>
        ELSE IF dg_match # None THEN dg_match[1][1]
        ELSE <<"Unknown">>

\* a peer test that lets every entry through
IsPeerAlways(addr_name, target_addr) == TRUE

\* the test that keeps the target itself out of its redundant list
IsPeer(addr_name, target_addr) == addr_name # target_addr

\* the list `redundant` built for target_addr from the entries sharing ip_netmask
RECURSIVE RedundantFor(_, _, _)
RedundantFor(addr_list, ip_netmask, target_addr) ==
    IF addr_list = <<>> THEN <<>>
    ELSE (IF IsPeer(Head(addr_list)[1], target_addr)
          THEN <<[name |-> Head(addr_list)[1], ip_netmask |-> ip_netmask,
                  device_group |-> RedundantDg(Head(addr_list)[2])]>>
          ELSE <<>>)
         \o RedundantFor(Tail(addr_list), ip_netmask, target_addr)

\* the loop over the targets for one IP/netmask value
RECURSIVE RedundantTargets(_, _, _, _)
RedundantTargets(res, targets, ip_netmask, addr_list) ==
    IF targets = <<>> THEN res
    ELSE LET t == Head(targets)
             r2 == IF \E i \in 1..Len(addr_list) : addr_list[i][1] = t
                   THEN Put(res, t, [Rec(res, t) EXCEPT !.redundant_addresses =
                                        RedundantFor(addr_list, ip_netmask, t)])
                   ELSE res
         IN  RedundantTargets(r2, Tail(targets), ip_netmask, addr_list)

\* a value counts as shared only from three entries on
HasPeersStrict(addr_list) == Len(addr_list) > 2

\* the test that an IP/netmask value is shared
HasPeers(addr_list) == Len(addr_list) > 1

\* _find_redundant_addresses(ip_to_addresses, target_addresses)
RECURSIVE FindRedundantAddresses(_, _, _)
FindRedundantAddresses(res, ip_map, targets) ==
    IF ip_map = <<>> THEN res
    ELSE LET ip_netmask == Head(ip_map)[1]
             addr_list == Head(ip_map)[2]
             r2 == IF HasPeers(addr_list)
                   THEN RedundantTargets(res, targets, ip_netmask, addr_list)
                   ELSE res
         IN  FindRedundantAddresses(r2, Tail(ip_map), targets)

(***************************************************************************)
(* Indirect reference resolver                                             *)
(***************************************************************************)

\* the inner loop that indexes the groups of one address
RECURSIVE IndexGroups(_, _, _)
IndexGroups(all_groups, groups, addr) ==
    IF groups = <<>> THEN all_groups
    ELSE IndexGroups(DictSet(all_groups, Head(groups).name, <<Head(groups), addr>>),
                     Tail(groups), addr)

\* all_groups: group name -> (group, addr), over the addresses in list order
RECURSIVE AllGroups(_, _, _)
AllGroups(all_groups, res, addrs) ==
    IF addrs = <<>> THEN all_groups
    ELSE AllGroups(IndexGroups(all_groups, Rec(res, Head(addrs)).address_groups, Head(addrs)),
                   res, Tail(addrs))

\* the table after the lookups self.results[addr] of the indexing loop
RECURSIVE TouchAll(_, _)
TouchAll(res, addrs) ==
    IF addrs = <<>> THEN res ELSE TouchAll(Touch(res, Head(addrs)), Tail(addrs))

\* the test that selects the rule-bearing lines
IsRuleLine(line) ==
    Contains(line, <<"security", SP, "rules">>) \/ Contains(line, <<"security", "-rule">>)

\* a selection that takes every indexed group as referenced
ReferencedGroupsAll(all_groups, line) == all_groups

\* referenced_groups: the indexed groups whose name occurs in the line, in index order
ReferencedGroups(all_groups, line) == SelectSeq(all_groups, LAMBDA e : Contains(line, e[1]))

\* the explanation of an indirect rule, before the usage annotation
IndirectBaseContext(group_name, group_info, target_addr) ==
    IF group_info.context = "shared"
    THEN <<"references shared address-group '">> \o group_name
         \o <<"' that contains ">> \o target_addr
    ELSE IF group_info.context = "device-group"
    THEN <<"references address-group '">> \o group_name \o <<"' from device-group '">>
         \o group_info.device_group[1] \o <<"' that contains ">> \o target_addr
    ELSE <<"references address-group '">> \o group_name
         \o <<"' that contains ">> \o target_addr

\* the usage annotation appended to the explanation
UsageAnnotation(line, group_name) ==
    IF Contains(line, KwDestination) /\ Contains(line, group_name)
    THEN IF Contains(SplitSecond(line, KwDestination), group_name)
         THEN <<" (in destination)">> ELSE <<>>
    ELSE IF Contains(line, KwSource) /\ Contains(line, group_name)
    THEN IF Contains(SplitSecond(line, KwSource), group_name)
         THEN <<" (in source)">> ELSE <<>>
    ELSE <<>>

\* a skip test that never skips
AlreadyDirectNever(res, target_addr, rule_name) == FALSE

\* the test "Skip if already in direct rules"
AlreadyDirect(res, target_addr, rule_name) ==
    DictHas(Rec(res, target_addr).direct_rules, rule_name)

\* the loop over the referenced groups of one rule line
RECURSIVE IndirectForGroups(_, _, _, _, _)
IndirectForGroups(res, refs, line, rule_name, device_group) ==
    IF refs = <<>> THEN res
    ELSE LET group_name == Head(refs)[1]
             group_info == Head(refs)[2][1]
             target_addr == Head(refs)[2][2]
             context == IndirectBaseContext(group_name, group_info, target_addr)
                        \o UsageAnnotation(line, group_name)
             r2 == IF AlreadyDirect(res, target_addr, rule_name)
                   THEN Touch(res, target_addr)
                   ELSE Put(res, target_addr,
                            [Rec(res, target_addr) EXCEPT
                               !.indirect_rules = DictSet(@, rule_name, device_group),
                               !.indirect_rule_contexts = DictSet(@, rule_name, context)])
         IN  IndirectForGroups(r2, Tail(refs), line, rule_name, device_group)

\* the body of the loop over the lines of the file, for one raw line
IndirectLine(res, all_groups, raw) ==
    LET line == Strip(raw)
        refs == ReferencedGroups(all_groups, line)
        rule == ExtractSecurityRule(line, <<>>)
        dg_match == Search(PATTERNS.device_group, line)
        device_group == IF dg_match # None THEN dg_match[1][1] ELSE <<"Unknown">>
    IN  IF ~IsRuleLine(line) THEN res
        ELSE IF refs = <<>> THEN res
        ELSE IF rule.rule_name = None THEN res
        ELSE IndirectForGroups(res, refs, line, rule.rule_name[1], device_group)

\* the loop over the lines of the file
RECURSIVE IndirectLines(_, _, _)
IndirectLines(res, all_groups, lines) ==
    IF lines = <<>> THEN res
    ELSE IndirectLines(IndirectLine(res, all_groups, Head(lines)), all_groups, Tail(lines))

\* _find_indirect_rules(file_path, addresses)
FindIndirectRules(res, lines, addrs) ==
    LET all_groups == AllGroups(<<>>, res, addrs)
    IN  IF all_groups = <<>> THEN TouchAll(res, addrs)
        ELSE IndirectLines(TouchAll(res, addrs), all_groups, lines)

(***************************************************************************)
(* Nested group resolver                                                   *)
(***************************************************************************)

\* the body of the first pass for one raw line: the catalogue after the line
CatalogueLine(cat, raw) ==
    LET line == Strip(raw)
        ms == Search(PATTERNS.address_group_shared, line)
        md == Search(PATTERNS.address_group_device, line)
    IN  IF line = <<>> THEN cat
        ELSE IF ms # None
        THEN DictSet(cat, ms[1][1],
                     <<SharedGroup(ms[1][1], ms[1][2]), ParseGroupMembers(ms[1][2])>>)
        ELSE IF md # None
        THEN DictSet(cat, md[1][2],
                     <<DeviceGroup(md[1][1], md[1][2], md[1][3]), ParseGroupMembers(md[1][3])>>)
        ELSE cat

\* all_address_groups: group name -> (group_info, members), after the first pass
RECURSIVE Catalogue(_, _)
Catalogue(cat, lines) ==
    IF lines = <<>> THEN cat ELSE Catalogue(CatalogueLine(cat, Head(lines)), Tail(lines))

\* a member test that also follows a second level of nesting
MemberReachesTwoLevels(cat, member, target_addr) ==
    DictHas(cat, member)
    /\ (InList(DictGet(cat, member)[2], target_addr)
        \/ \E j \in 1..Len(DictGet(cat, member)[2]) :
              LET m2 == DictGet(cat, member)[2][j]
              IN  DictHas(cat, m2) /\ InList(DictGet(cat, m2)[2], target_addr))

\* the test that a member is a catalogued group that lists the target
MemberReaches(cat, member, target_addr) ==
    DictHas(cat, member) /\ InList(DictGet(cat, member)[2], target_addr)

\* relevant_for_addresses of one group of the catalogue
RelevantForAddresses(cat, members, targets) ==
    {t \in targets : \E i \in 1..Len(members) :
                        MemberReaches(cat, members[i], t) \/ members[i] = t}

\* the append of group_info to the groups of one relevant address
AttachGroup(result, group_info) ==
    IF \A i \in 1..Len(result.address_groups) :
          result.address_groups[i].name # group_info.name
    THEN [result EXCEPT !.address_groups = Append(@, group_info)]
    ELSE result

\* the loop "for target_addr in relevant_for_addresses", over the relevant addresses
\* in the order the set is iterated
RECURSIVE AttachAll(_, _, _)
AttachAll(res, relevant, group_info) ==
    IF relevant = <<>> THEN res
    ELSE AttachAll(Put(res, Head(relevant), AttachGroup(Rec(res, Head(relevant)), group_info)),
                   Tail(relevant), group_info)

\* the second pass: the loop over the catalogue entries in insertion order; orders[k]
\* is the order in which the set relevant_for_addresses of the k-th entry is iterated
RECURSIVE NestedPass(_, _, _, _, _, _)
NestedPass(res, cat, k, last, targets, orders) ==
    IF k > last THEN res
    ELSE LET group_info == cat[k][2][1]
             members == cat[k][2][2]
             relevant == RelevantForAddresses(cat, members, targets)
             r2 == AttachAll(res, SelectSeq(orders[k], LAMBDA t : t \in relevant), group_info)
         IN  NestedPass(r2, cat, k + 1, last, targets, orders)

\* _find_nested_address_groups(file_path, addresses)
FindNestedAddressGroups(res, lines, addrs, orders) ==
    LET cat == Catalogue(<<>>, lines)
        targets == {addrs[i] : i \in 1..Len(addrs)}
    IN  NestedPass(res, cat, 1, Len(cat), targets, orders)

(***************************************************************************)
(* Report assembly: format_results                                         *)
(***************************************************************************)

\* list(a_set): the sequences that enumerate the set, one per iteration order
ListsOf(S) ==
    {p \in [1..Cardinality(S) -> S] : \A i, j \in 1..Cardinality(S) : p[i] = p[j] => i = j}

\* the loop that renders a rule map: f"{rule} (Device Group: {dg}, {context})"
RECURSIVE FormatRules(_, _, _)
FormatRules(rules, contexts, default) ==
    IF rules = <<>> THEN <<>>
    ELSE LET rule == Head(rules)[1]
             dg == Head(rules)[2]
             context == IF DictHas(contexts, rule) THEN DictGet(contexts, rule) ELSE default
         IN  << rule \o <<" (Device Group: ">> \o dg \o <<", ">> \o context \o <<")">> >>
             \o FormatRules(Tail(rules), contexts, default)

\* a mapping that leaves a category out when it has no items
FormatResultsSparse(result, dgs, nats, sgs) ==
    SelectSeq(<< <<"Device Groups", dgs>>,
                 <<"Address Groups", result.address_groups>>,
                 <<"NAT Rules", nats>>,
                 <<"Service Groups", sgs>>,
                 <<"Redundant Addresses", result.redundant_addresses>> >>,
              LAMBDA e : e[2] # <<>>)

\* the mapping format_results returns for a record; dgs, nats and sgs are the lists
\* list(set) made of the three sets of the record
FormatResults(result, dgs, nats, sgs) ==
    << <<"Device Groups", dgs>>,
       <<"Direct Security Rules",
         FormatRules(result.direct_rules, result.direct_rule_contexts, <<"direct reference">>)>>,
       <<"Indirect Security Rules (via Address Groups)",
         FormatRules(result.indirect_rules, result.indirect_rule_contexts,
                     <<"indirect reference">>)>>,
       <<"Address Groups", result.address_groups>>,
       <<"NAT Rules", nats>>,
       <<"Service Groups", sgs>>,
       <<"Redundant Addresses", result.redundant_addresses>> >>

(***************************************************************************)
(* Report writer: write_results.  The text of a report is one sequence of  *)
(* atoms with the atom NL for the line feed; an icon is one atom, written  *)
(* here by its name in braces.                                             *)
(***************************************************************************)

\* the line feed
NL == "\n"

\* a line of text with its line feed
Ln(text) == text \o <<NL>>

\* n blanks
Blanks(n) == [i \in 1..n |-> SP]

\* f"{i:2d}"
TwoDigits(i) == IF i < 10 THEN <<SP, ToString(i)>> ELSE <<ToString(i)>>

\* the line of "═" that frames header and footer
Frame == Ln(<<"# ", "=====">>)

\* category_icons, with category.upper() and the test "Security Rules" in category
CategoryTable ==
    << [category |-> "Device Groups", upper |-> "DEVICE GROUPS", icon |-> "{building}",
        rules |-> FALSE],
       [category |-> "Direct Security Rules", upper |-> "DIRECT SECURITY RULES",
        icon |-> "{shield}", rules |-> TRUE],
       [category |-> "Indirect Security Rules (via Address Groups)",
        upper |-> "INDIRECT SECURITY RULES (VIA ADDRESS GROUPS)", icon |-> "{link}",
        rules |-> TRUE],
       [category |-> "Address Groups", upper |-> "ADDRESS GROUPS", icon |-> "{folder}",
        rules |-> FALSE],
       [category |-> "NAT Rules", upper |-> "NAT RULES", icon |-> "{globe}", rules |-> FALSE],
       [category |-> "Service Groups", upper |-> "SERVICE GROUPS", icon |-> "{gear}",
        rules |-> FALSE],
       [category |-> "Redundant Addresses", upper |-> "REDUNDANT ADDRESSES",
        icon |-> "{warning}", rules |-> FALSE] >>

\* the row of the table for a category
CategoryRow(category) ==
    CategoryTable[CHOOSE i \in 1..Len(CategoryTable) : CategoryTable[i].category = category]

\* the numbered matching lines
RECURSIVE MatchingLinesText(_, _)
MatchingLinesText(matching_lines, i) ==
    IF i > Len(matching_lines) THEN <<>>
    ELSE Ln(Blanks(2) \o TwoDigits(i) \o <<".", SP>> \o matching_lines[i])
         \o MatchingLinesText(matching_lines, i + 1)

\* one formatted rule taken apart again: None when the item does not hold the device
\* group separator exactly once, else Some of the rule, the device group and the context
ParseRuleItem(item) ==
    LET sep == <<" (Device Group: ">>
        rule_name == SplitHead(item, sep)
        tail == AfterFirst(item, sep)
        dg_part == IF EndsWith(tail, <<")">>) THEN Slice(tail, 1, Len(tail) - 1) ELSE tail
    IN  IF Cardinality(Occurrences(item, sep)) # 1 THEN None
        ELSE IF Contains(dg_part, <<", ">>)
        THEN Some([rule |-> rule_name, dg |-> SplitHead(dg_part, <<", ">>),
                   context |-> Some(AfterFirst(dg_part, <<", ">>))])
        ELSE Some([rule |-> rule_name, dg |-> dg_part, context |-> None])

\* the rule lines of one device group, in item order
RECURSIVE RulesOfDg(_, _)
RulesOfDg(items, dg) ==
    IF items = <<>> THEN <<>>
    ELSE LET parsed == ParseRuleItem(Head(items))
         IN  (IF parsed # None /\ parsed[1].dg = dg
              THEN Ln(Blanks(4) \o <<"-", SP>> \o parsed[1].rule
                      \o (IF parsed[1].context # None /\ parsed[1].context[1] # <<>>
                          THEN <<SP, SP, "#", SP>> \o parsed[1].context[1] ELSE <<>>))
              ELSE <<>>)
             \o RulesOfDg(Tail(items), dg)

\* the device-group names a report can show, in the order sorted() gives them
SortedDgNames == << <<"DG1">>, <<"Unknown">> >>

\* the body of a security-rules category: the rules grouped by device group
RECURSIVE RulesByDgText(_, _)
RulesByDgText(items, dgs) ==
    IF dgs = <<>> THEN <<>>
    ELSE (IF RulesOfDg(items, Head(dgs)) # <<>>
          THEN Ln(Blanks(2) \o Head(dgs) \o <<":">>) \o RulesOfDg(items, Head(dgs)) \o <<NL>>
          ELSE <<>>)
         \o RulesByDgText(items, Tail(dgs))

\* the text "set shared address-group" / "set device-group <dg> address-group"
SetSharedText == <<"set", SP, "shared">>

SetDeviceGroupText == <<"set", SP, "device", "-group">>

AddressGroupText == <<"address", "-group">>

\* the marker of a command line of the report, without its trailing blank
CommandMarker == <<"{branch} Command:">>

\* the body of the Address Groups category
RECURSIVE AddressGroupsText(_, _)
AddressGroupsText(items, i) ==
    IF i > Len(items) THEN <<>>
    ELSE LET group == items[i]
         IN  (IF group.context = "shared"
              THEN Ln(Blanks(2) \o <<"{folder}", SP, ToString(i), ".", SP>> \o group.name
                      \o <<SP, "(shared scope)">>)
                   \o Ln(Blanks(5) \o CommandMarker \o <<SP>> \o SetSharedText \o <<SP>>
                         \o AddressGroupText \o <<SP>> \o group.name
                         \o <<SP, "static", SP>> \o group.definition)
              ELSE Ln(Blanks(2) \o <<"{folder}", SP, ToString(i), ".", SP>> \o group.name
                      \o <<SP, "(device-group: ">> \o group.device_group[1] \o <<")">>)
                   \o Ln(Blanks(5) \o CommandMarker \o <<SP>> \o SetDeviceGroupText \o <<SP>>
                         \o group.device_group[1] \o <<SP>> \o AddressGroupText \o <<SP>>
                         \o group.name \o <<SP, "static", SP>> \o group.definition))
             \o Ln(Blanks(5) \o <<"{branch} Members:", SP>> \o group.definition) \o <<NL>>
             \o AddressGroupsText(items, i + 1)

\* the body of the Redundant Addresses category, after its first line
RECURSIVE RedundantText(_, _)
RedundantText(items, i) ==
    IF i > Len(items) THEN <<>>
    ELSE Ln(Blanks(2) \o <<"{repeat}", SP, ToString(i), ".", SP>> \o items[i].name)
         \o Ln(Blanks(5) \o <<"{branch} IP/Netmask:", SP>> \o items[i].ip_netmask)
         \o Ln(Blanks(5) \o <<"{branch} Scope:", SP>> \o items[i].device_group)
         \o Ln(Blanks(5) \o <<"{branch} Note: Same IP as target address - potential duplicate">>)
         \o <<NL>>
         \o RedundantText(items, i + 1)

\* the body of a category of plain names
RECURSIVE PlainItemsText(_, _)
PlainItemsText(items, i) ==
    IF i > Len(items) THEN <<>>
    ELSE Ln(Blanks(2) \o <<"{pin}", SP, ToString(i), ".", SP>> \o items[i])
         \o PlainItemsText(items, i + 1)

\* one category section
CategoryText(category, items) ==
    LET row == CategoryRow(category)
        count == Len(items)
    IN  <<NL>> \o Ln(<<"# ", row.icon, SP, row.upper>>)
        \o Ln(<<"# ", "Found: ", ToString(count), " item">>
               \o (IF count # 1 THEN <<"s">> ELSE <<>>))
        \o Ln(<<"---">>)
        \o (IF row.rules /\ items # <<>> THEN RulesByDgText(items, SortedDgNames)
            ELSE IF category = "Address Groups" /\ items # <<>> THEN AddressGroupsText(items, 1)
            ELSE IF category = "Redundant Addresses" /\ items # <<>>
            THEN Ln(Blanks(2) \o <<"{warning}", SP, SP,
                                   "Address objects with identical IP configurations:">>)
                 \o <<NL>> \o RedundantText(items, 1)
            ELSE IF items # <<>> THEN PlainItemsText(items, 1)
            ELSE Ln(Blanks(2) \o <<"{thought}", SP, "None discovered">>))
        \o <<NL>>

\* the loop over items_dict.items()
RECURSIVE CategoriesText(_)
CategoriesText(items_dict) ==
    IF items_dict = <<>> THEN <<>>
    ELSE CategoryText(Head(items_dict)[1], Head(items_dict)[2])
         \o CategoriesText(Tail(items_dict))

\* sum(len(items) if items else 0 for items in items_dict.values())
RECURSIVE TotalItems(_)
TotalItems(items_dict) ==
    IF items_dict = <<>> THEN 0 ELSE Len(Head(items_dict)[2]) + TotalItems(Tail(items_dict))

\* the text write_results puts in the output file
WriteResults(address_name, matching_lines, items_dict) ==
    Frame
    \o Ln(<<"# ", "{fire}", SP, "PAN Log Parser Analysis Report v2.0">>)
    \o Frame
    \o Ln(<<"# ", "{target}", SP, "Target Address Object: ">> \o address_name)
    \o Ln(<<"# ", "{chart}", SP, "Configuration Lines Found: ", ToString(Len(matching_lines))>>)
    \o Ln(<<"# ", "{link}", SP, "Total Relationships: ", ToString(TotalItems(items_dict))>>)
    \o Frame \o <<NL>>
    \o Ln(<<"# ", "{clipboard}", SP, "MATCHING CONFIGURATION LINES">>)
    \o Ln(<<"# ", "Found ", ToString(Len(matching_lines)), " lines containing '">>
           \o address_name \o <<"'">>)
    \o Ln(<<"---">>) \o <<NL>>
    \o (IF matching_lines # <<>> THEN MatchingLinesText(matching_lines, 1)
        ELSE Ln(Blanks(2) \o <<"#", SP, "No matching lines found">>))
    \o CategoriesText(items_dict)
    \o Frame
    \o Ln(<<"# ", "{party}", SP, "Analysis Complete">>)
    \o Ln(<<"# ", "Generated by: PAN Log Parser Tool v2.0">>)
    \o Ln(<<"# ", "Advanced Palo Alto Networks Configuration Analysis">>)
    \o Frame

(***************************************************************************)
(* Command generator: generate_add_commands                                *)
(***************************************************************************)

\* "# <folder icon> ADDRESS GROUPS"
AddressGroupsHeader == <<"# ", "{folder}", SP, "ADDRESS GROUPS">>

\* the icons of the character class that ends the address groups section
SectionIcons ==
    {"{globe}", "{gear}", "{warning}", "{building}", "{shield}", "{link}", "{folder}",
     "{clipboard}"}

\* re.search(r'\n# [icons]', text): the start of the first match, 0 when there is none
NextSectionStart(text) ==
    LET starts == {i \in 1..Len(text) :
                      At(text, i) = NL /\ At(text, i + 1) = "# " /\ At(text, i + 2) \in SectionIcons}
    IN  IF starts = {} THEN 0 ELSE Min(starts)

\* text.strip() on blanks and line feeds
RECURSIVE StripText(_)
StripText(text) ==
    IF text # <<>> /\ Head(text) \in {SP, NL} THEN StripText(Tail(text))
    ELSE IF text # <<>> /\ text[Len(text)] \in {SP, NL}
    THEN StripText(Slice(text, 1, Len(text) - 1))
    ELSE text

\* text.split('\n')
RECURSIVE SplitLines(_)
SplitLines(text) ==
    IF Find(text, <<NL>>) = 0 THEN <<text>>
    ELSE <<SplitHead(text, <<NL>>)>> \o SplitLines(AfterFirst(text, <<NL>>))

\* the command built from one command line of the report
AddCommand(command_part, new_address) ==
    LET prefix == SplitHead(command_part, AddressGroupText) \o AddressGroupText
        remaining == Strip(SplitSecond(command_part, AddressGroupText))
        group_name == Strip(SplitHead(remaining, <<"static">>))
    IN  prefix \o <<SP>> \o group_name \o <<SP, "member", SP>> \o new_address

\* the loop over the lines of the address groups section; an IndexError on a command
\* that holds no "address-group" ends the loop with the commands built so far
RECURSIVE CommandsOf(_, _)
CommandsOf(lines, new_address) ==
    IF lines = <<>> THEN <<>>
    ELSE LET line == Head(lines)
             command_part == Strip(SplitSecond(line, CommandMarker \o <<SP>>))
         IN  IF ~Contains(line, CommandMarker) THEN CommandsOf(Tail(lines), new_address)
             ELSE IF ~Contains(line, CommandMarker \o <<SP>>) THEN <<>>
             ELSE IF Contains(command_part, SetDeviceGroupText)
                     \/ Contains(command_part, SetSharedText)
             THEN IF ~Contains(command_part, AddressGroupText) THEN <<>>
                  ELSE <<AddCommand(command_part, new_address)>>
                       \o CommandsOf(Tail(lines), new_address)
             ELSE CommandsOf(Tail(lines), new_address)

\* the address groups section of a report that holds the header
AddressGroupsSection(content) ==
    LET after_address_groups == SplitSecond(content, AddressGroupsHeader)
        start == NextSectionStart(after_address_groups)
    IN  IF start # 0 THEN Slice(after_address_groups, 1, start - 1) ELSE after_address_groups

\* generate_add_commands(results_file, new_address) on the text of the file
GenerateAddCommands(content, new_address) ==
    IF Contains(content, AddressGroupsHeader)
    THEN CommandsOf(SplitLines(StripText(AddressGroupsSection(content))), new_address)
    ELSE <<>>

(***************************************************************************)
(* The run: process_file_single_pass                                       *)
(***************************************************************************)

VARIABLES
    file,             \* the lines of the configuration file, as read (not yet stripped)
    addresses,        \* the list of target addresses passed by the caller
    address_set,      \* set(addresses), as the sequence in which Python iterates it
    results,          \* self.results: address name -> record
    ip_to_addresses,  \* IP/netmask -> list of (address name, defining line)
    line_num,         \* the number of lines the primary scan has consumed
    pc,               \* scan, redundant, indirect, nested: the stage about to run;
                      \* done: process_file_single_pass returned True; failed: it
                      \* returned False; raised: an exception left it; exit: main ended
    errors,           \* the error messages printed so far
    interactive_mode, \* args.interactive
    use_single_file,  \* the answer of the user to "single combined output file?"
    addr_num,         \* the number of addresses main has passed to process_address
    reports,          \* the output files written so far: file name -> text
    formatted,        \* None, or Some(<<address, mapping>>) of the last format_results
    commands,         \* None, or Some(the list) the last generate_add_commands returned
    handles           \* the handles process_file_single_pass has on the configuration
                      \* file: open (the stages that hold one), opens (the number of
                      \* open() calls so far), most (the largest number open at a
                      \* time), stages (the stages started, in order), overlap (a
                      \* stage started while a handle was open)

\* the state of main around the processor
mainVars == <<errors, interactive_mode, use_single_file, addr_num, reports, formatted, commands>>

vars == <<file, addresses, address_set, results, ip_to_addresses, line_num, pc, mainVars,
          handles>>

\* no handle was opened and no stage started
NoHandles == [open |-> <<>>, opens |-> 0, most |-> 0, stages |-> <<>>, overlap |-> FALSE]

\* a stage of process_file_single_pass begins
StartStage(h, stage) ==
    [h EXCEPT !.stages = Append(@, stage), !.overlap = @ \/ h.open # <<>>]

\* open(file_path, 'r') in a stage
OpenFile(h, stage) ==
    [h EXCEPT !.open = Append(@, stage),
              !.opens = @ + 1,
              !.most = IF Len(h.open) + 1 > @ THEN Len(h.open) + 1 ELSE @]

\* a with-block that leaves its file open
CloseFileNever(h, stage) == h

\* the end of the with-block of a stage, by its last line or by an exception: the
\* handle of the stage is closed
CloseFile(h, stage) == [h EXCEPT !.open = SelectSeq(@, LAMBDA st : st # stage)]

\* the handles once the primary scan is inside its with-block: opened before the
\* first line is read
ScanHandles(h, n) == IF n = 0 THEN OpenFile(StartStage(h, "scan"), "scan") ELSE h

\* a stage that streams the file once inside a with-block
OnePass(h, stage) == CloseFile(OpenFile(StartStage(h, stage), stage), stage)

\* the empty result table
NoResults == [x \in {} |-> DefaultResult]

\* no output file
NoReports == [f \in {} |-> <<>>]

\* an append that leaves out a line the list already holds
AppendLineOnce(lines, line) == IF InList(lines, line) THEN lines ELSE Append(lines, line)

\* self.results[address]['matching_lines'].append(line)
AppendLine(lines, line) == Append(lines, line)

\* an admission test that lets every target through
AdmittedAlways(line, addr) == TRUE

\* the admission test "addr in line"
Admitted(line, addr) == Contains(line, addr)

\* the loop "for address in matching_addresses" of the primary scan
RECURSIVE ScanMatching(_, _, _)
ScanMatching(res, matching, line) ==
    IF matching = <<>> THEN res
    ELSE LET address == Head(matching)
             r1 == [Rec(res, address) EXCEPT !.matching_lines = AppendLine(@, line)]
         IN  ScanMatching(Put(res, address, ExtractItemsFromLine(r1, line, address)),
                          Tail(matching), line)

\* a loop body that handles the first matching address only
ScanResultsFirstOnly(res, targets, raw) ==
    LET line == Strip(raw)
        matching_addresses == SelectSeq(targets, LAMBDA addr : Admitted(line, addr))
        first == IF matching_addresses = <<>> THEN <<>> ELSE <<Head(matching_addresses)>>
    IN  IF line = <<>> THEN res ELSE ScanMatching(res, first, line)

\* the result table after the body of the primary loop ran on one raw line
ScanResults(res, targets, raw) ==
    LET line == Strip(raw)
        ip_match == Search(PATTERNS.ip_netmask, line)
        r1 == IF ip_match # None /\ InList(targets, ip_match[1][1])
              THEN Put(res, ip_match[1][1],
                       [Rec(res, ip_match[1][1]) EXCEPT !.ip_netmask = Some(ip_match[1][2])])
              ELSE res
        matching_addresses == SelectSeq(targets, LAMBDA addr : Admitted(line, addr))
    IN  IF line = <<>> THEN res ELSE ScanMatching(r1, matching_addresses, line)

\* ip_to_addresses after the body of the primary loop ran on one raw line
ScanIpMap(ip_map, raw) ==
    LET line == Strip(raw)
        ip_match == Search(PATTERNS.ip_netmask, line)
    IN  IF line = <<>> \/ ip_match = None THEN ip_map
        ELSE DictSet(ip_map, ip_match[1][2],
                     Append(IF DictHas(ip_map, ip_match[1][2])
                            THEN DictGet(ip_map, ip_match[1][2]) ELSE <<>>,
                            <<ip_match[1][1], line>>))

\* one iteration of the primary loop
ScanLine ==
    /\ pc = "scan"
    /\ line_num < Len(file)
    /\ line_num' = line_num + 1
    /\ results' = ScanResults(results, address_set, file[line_num + 1])
    /\ ip_to_addresses' = ScanIpMap(ip_to_addresses, file[line_num + 1])
    /\ handles' = ScanHandles(handles, line_num)
    /\ UNCHANGED <<file, addresses, address_set, pc, mainVars>>

\* the primary loop ends and the with-block closes the file
ScanEnd ==
    /\ pc = "scan"
    /\ line_num = Len(file)
    /\ pc' = "redundant"
    /\ handles' = CloseFile(ScanHandles(handles, line_num), "scan")
    /\ UNCHANGED <<file, addresses, address_set, results, ip_to_addresses, line_num, mainVars>>

\* self._find_redundant_addresses(ip_to_addresses, address_set)
RedundantStage ==
    /\ pc = "redundant"
    /\ results' = FindRedundantAddresses(results, ip_to_addresses, address_set)
    /\ pc' = "indirect"
    /\ handles' = StartStage(handles, "redundant")
    /\ UNCHANGED <<file, addresses, address_set, ip_to_addresses, line_num, mainVars>>

\* self._find_indirect_rules(file_path, addresses)
IndirectStage ==
    /\ pc = "indirect"
    /\ results' = FindIndirectRules(results, file, addresses)
    /\ pc' = "nested"
    /\ handles' = IF AllGroups(<<>>, results, addresses) = <<>>
                   THEN StartStage(handles, "indirect")
                   ELSE OnePass(handles, "indirect")
    /\ UNCHANGED <<file, addresses, address_set, ip_to_addresses, line_num, mainVars>>

\* the orders in which a set built from the list s can be iterated
Orders(s) == {p \in [1..Len(s) -> {s[i] : i \in 1..Len(s)}] :
                 \A i, j \in 1..Len(s) : p[i] = p[j] => i = j}

\* self._find_nested_address_groups(file_path, addresses), then return True; every set
\* relevant_for_addresses is iterated in an order of its own
NestedStage ==
    /\ pc = "nested"
    /\ \E orders \in [1..Len(Catalogue(<<>>, file)) -> Orders(addresses)] :
          results' = FindNestedAddressGroups(results, file, addresses, orders)
    /\ pc' = "done"
    /\ handles' = OnePass(handles, "nested")
    /\ UNCHANGED <<file, addresses, address_set, ip_to_addresses, line_num, mainVars>>

\* a run in which no stage fails
Next == ScanLine \/ ScanEnd \/ RedundantStage \/ IndirectStage \/ NestedStage

(***************************************************************************)
(* Failures.  A primary scan that cannot open the file or fails while it   *)
(* reads returns False (lines 89-94).  The redundancy detector and the     *)
(* indexing loop of the indirect resolver run under no handler (lines 97   *)
(* and 217-220): an exception raised there leaves process_file_single_pass *)
(* and main.  The re-scan of the indirect resolver and the whole nested    *)
(* resolver run under "except Exception" (lines 279 and 344).              *)
(***************************************************************************)

\* open() raises FileNotFoundError: the message is printed and False returned
ScanOpenFails ==
    /\ pc = "scan"
    /\ line_num = 0
    /\ errors' = Append(errors, "Error: File not found.")
    /\ pc' = "failed"
    /\ handles' = StartStage(handles, "scan")
    /\ UNCHANGED <<file, addresses, address_set, results, ip_to_addresses, line_num,
                   interactive_mode, use_single_file, addr_num, reports, formatted, commands>>

\* open() or the read of the next line raises another exception
ScanReadFails ==
    /\ pc = "scan"
    /\ line_num <= Len(file)
    /\ errors' = Append(errors, "Error reading file")
    /\ pc' = "failed"
    /\ handles' = CloseFile(ScanHandles(handles, line_num), "scan")
    /\ UNCHANGED <<file, addresses, address_set, results, ip_to_addresses, line_num,
                   interactive_mode, use_single_file, addr_num, reports, formatted, commands>>

\* an exception inside the loop of _find_redundant_addresses, after k values were
\* handled: no handler
RedundantRaises ==
    /\ pc = "redundant"
    /\ \E k \in 0..(Len(ip_to_addresses) - 1) :
          results' = FindRedundantAddresses(results, Slice(ip_to_addresses, 1, k), address_set)
    /\ pc' = "raised"
    /\ handles' = StartStage(handles, "redundant")
    /\ UNCHANGED <<file, addresses, address_set, ip_to_addresses, line_num, mainVars>>

\* an exception inside the indexing loop of _find_indirect_rules, after k addresses
\* were looked up: no handler
IndirectIndexRaises ==
    /\ pc = "indirect"
    /\ \E k \in 0..(Len(addresses) - 1) : results' = TouchAll(results, Slice(addresses, 1, k))
    /\ pc' = "raised"
    /\ handles' = StartStage(handles, "indirect")
    /\ UNCHANGED <<file, addresses, address_set, ip_to_addresses, line_num, mainVars>>

\* open() or a read fails in the re-scan of _find_indirect_rules after k lines: the
\* handler prints the message and the function returns
IndirectFails ==
    /\ pc = "indirect"
    /\ AllGroups(<<>>, results, addresses) # <<>>
    /\ \E k \in 0..Len(file) :
          results' = IndirectLines(TouchAll(results, addresses),
                                   AllGroups(<<>>, results, addresses), Slice(file, 1, k))
    /\ errors' = Append(errors, "Error finding indirect rules")
    /\ pc' = "nested"
    /\ handles' = OnePass(handles, "indirect")
    /\ UNCHANGED <<file, addresses, address_set, ip_to_addresses, line_num,
                   interactive_mode, use_single_file, addr_num, reports, formatted, commands>>

\* an exception inside _find_nested_address_groups: in the first pass (nothing is
\* attached) or in the second pass after k catalogue entries; the handler prints the
\* message and process_file_single_pass returns True
NestedFails ==
    /\ pc = "nested"
    /\ \E k \in 0..Len(Catalogue(<<>>, file)) :
          \E orders \in [1..Len(Catalogue(<<>>, file)) -> Orders(addresses)] :
             results' = NestedPass(results, Catalogue(<<>>, file), 1, k,
                                   {addresses[i] : i \in 1..Len(addresses)}, orders)
    /\ errors' = Append(errors, "Error finding nested address groups")
    /\ pc' = "done"
    /\ handles' = OnePass(handles, "nested")
    /\ UNCHANGED <<file, addresses, address_set, ip_to_addresses, line_num,
                   interactive_mode, use_single_file, addr_num, reports, formatted, commands>>

(***************************************************************************)
(* main after process_file_single_pass, process_address, and the calls of  *)
(* the query surface                                                       *)
(***************************************************************************)

\* the test "if not processor.process_file_single_pass(...): return" of main, with
\* the guard left out
MainProceedsAlways(stage) == stage \in {"done", "failed"}

\* the test "if not processor.process_file_single_pass(...): return" of main
MainProceeds(stage) == stage = "done"

\* the addresses main passes to process_address: all of them in interactive mode,
\* else the first one
ReportAddresses ==
    IF Len(addresses) > 1 /\ interactive_mode THEN addresses ELSE Slice(addresses, 1, 1)

\* output_override or f"{address_name}_results.yml"
OutputFile(address_name, output_override) ==
    IF output_override # <<>> THEN output_override ELSE address_name \o <<"_results.yml">>

\* the output_override main passes to process_address
OutputOverride ==
    IF Len(addresses) > 1 /\ interactive_mode /\ use_single_file
    THEN <<"multiple_addresses_results.yml">> ELSE <<>>

\* the files after open(output_file, "w") and the writes
WriteFile(files, name, text) ==
    [f \in (DOMAIN files) \cup {name} |-> IF f = name THEN text ELSE files[f]]

\* the test of process_address that ends it with "No matches found"
NoMatches(res, address_name) ==
    address_name \notin DOMAIN res \/ res[address_name].matching_lines = <<>>

\* process_address for the next address of main's loop
ProcessAddress ==
    /\ MainProceeds(pc)
    /\ addr_num < Len(ReportAddresses)
    /\ addr_num' = addr_num + 1
    /\ LET address_name == ReportAddresses[addr_num + 1]
       IN  IF NoMatches(results, address_name)
           THEN UNCHANGED <<reports, formatted>>
           ELSE \E dgs \in ListsOf(results[address_name].device_groups),
                   nats \in ListsOf(results[address_name].nat_rules),
                   sgs \in ListsOf(results[address_name].service_groups) :
                   LET items_dict == FormatResults(results[address_name], dgs, nats, sgs)
                   IN  /\ formatted' = Some(<<address_name, items_dict>>)
                       /\ reports' = WriteFile(reports,
                                               OutputFile(address_name, OutputOverride),
                                               WriteResults(address_name,
                                                            results[address_name].matching_lines,
                                                            items_dict))
    /\ UNCHANGED handles
    /\ UNCHANGED <<file, addresses, address_set, results, ip_to_addresses, line_num, pc,
                   errors, interactive_mode, use_single_file, commands>>

\* process_address when open(output_file, "w") fails: write_results prints the
\* message and returns False
ProcessAddressWriteFails ==
    /\ MainProceeds(pc)
    /\ addr_num < Len(ReportAddresses)
    /\ ~NoMatches(results, ReportAddresses[addr_num + 1])
    /\ addr_num' = addr_num + 1
    /\ errors' = Append(errors, "Error writing to output file")
    /\ \E dgs \in ListsOf(results[ReportAddresses[addr_num + 1]].device_groups),
          nats \in ListsOf(results[ReportAddresses[addr_num + 1]].nat_rules),
          sgs \in ListsOf(results[ReportAddresses[addr_num + 1]].service_groups) :
          formatted' = Some(<<ReportAddresses[addr_num + 1],
                              FormatResults(results[ReportAddresses[addr_num + 1]],
                                            dgs, nats, sgs)>>)
    /\ UNCHANGED handles
    /\ UNCHANGED <<file, addresses, address_set, results, ip_to_addresses, line_num, pc,
                   interactive_mode, use_single_file, reports, commands>>

\* the tests of handle_command_generation on the text of a report: it holds the
\* address groups header, and its section holds a command line and no "None discovered"
HasCommandLines(content) ==
    /\ Contains(content, AddressGroupsHeader)
    /\ ~Contains(AddressGroupsSection(content), <<"{thought}", SP, "None discovered">>)
    /\ Contains(StripText(AddressGroupsSection(content)), CommandMarker)

\* the names the user can enter for the new address object
NewAddresses == { <<"new", "1">> }

\* handle_command_generation at the end of main in interactive mode, when the user
\* asks for commands: generate_add_commands on a report that holds address groups
GenerateCommands ==
    /\ MainProceeds(pc)
    /\ addr_num = Len(ReportAddresses)
    /\ interactive_mode
    /\ \E output_file \in DOMAIN reports, new_address \in NewAddresses :
          /\ HasCommandLines(reports[output_file])
          /\ commands' = Some(GenerateAddCommands(reports[output_file], new_address))
    /\ pc' = "exit"
    /\ UNCHANGED handles
    /\ UNCHANGED <<file, addresses, address_set, results, ip_to_addresses, line_num,
                   errors, interactive_mode, use_single_file, addr_num, reports, formatted>>

\* main ends: after a False from process_file_single_pass, or after the reports
\* without command generation
MainReturns ==
    /\ \/ pc = "failed"
       \/ MainProceeds(pc) /\ addr_num = Len(ReportAddresses)
    /\ pc' = "exit"
    /\ UNCHANGED handles
    /\ UNCHANGED <<file, addresses, address_set, results, ip_to_addresses, line_num, mainVars>>

\* the names the presentation code can pass to format_results
QueryNames == {addresses[i] : i \in 1..Len(addresses)} \cup { <<"db", "1">> }

\* a call format_results(address) of the query surface after a run
FormatResultsCall ==
    /\ pc = "done"
    /\ \E address \in QueryNames :
          /\ results' = Touch(results, address)
          /\ \E dgs \in ListsOf(Rec(results, address).device_groups),
                nats \in ListsOf(Rec(results, address).nat_rules),
                sgs \in ListsOf(Rec(results, address).service_groups) :
                formatted' = Some(<<address,
                                    FormatResults(Rec(results, address), dgs, nats, sgs)>>)
    /\ UNCHANGED handles
    /\ UNCHANGED <<file, addresses, address_set, ip_to_addresses, line_num, pc,
                   errors, interactive_mode, use_single_file, addr_num, reports, commands>>

\* a run with its failures, followed by main
NextMain ==
    \/ Next
    \/ ScanOpenFails
    \/ ScanReadFails
    \/ RedundantRaises
    \/ IndirectIndexRaises
    \/ IndirectFails
    \/ NestedFails
    \/ ProcessAddress
    \/ ProcessAddressWriteFails
    \/ GenerateCommands
    \/ MainReturns

\* a run in which no stage fails, followed by calls of the query surface
NextQuery == Next \/ FormatResultsCall

(***************************************************************************)
(* Inputs                                                                  *)
(***************************************************************************)

\* the files of at most n lines drawn from a set of lines
Files(lines, n) == UNION {[1..k -> lines] : k \in 0..n}

\* a fresh processor about to run on one of the files for one of the target lists
InitOn(fileSet, addressLists) ==
    /\ file \in fileSet
    /\ addresses \in addressLists
    /\ address_set \in Orders(addresses)
    /\ results = NoResults
    /\ ip_to_addresses = <<>>
    /\ line_num = 0
    /\ pc = "scan"
    /\ errors = <<>>
    /\ addr_num = 0
    /\ reports = NoReports
    /\ formatted = None
    /\ commands = None
    /\ handles = NoHandles

\* a run whose caller is main in non-interactive mode
InitBatch(fileSet, addressLists) ==
    /\ InitOn(fileSet, addressLists)
    /\ interactive_mode = FALSE
    /\ use_single_file = FALSE

\* a run whose caller is main in any of its modes
InitMainOn(fileSet, addressLists) ==
    /\ InitOn(fileSet, addressLists)
    /\ interactive_mode \in BOOLEAN
    /\ use_single_file \in {u \in BOOLEAN : u => (interactive_mode /\ Len(addresses) > 1)}

\* names used in the input files
web1 == <<"web", "1">>

web2 == <<"web", "2">>

db1 == <<"db", "1">>

address1 == <<"address", "1">>

address2 == <<"address", "2">>

WEB == <<"WEB">>

FRONT == <<"FRONT">>

EDGE == <<"EDGE">>

DG1 == <<"DG1">>

IP1 == <<"10.0.0.1/32">>

IP2 == <<"10.0.0.2/32">>

\* "set shared address-group <name> static [ <members> ]"
SharedGroupLine(name, members) ==
    Join(<< <<"set">>, <<"shared">>, <<"address", "-group">>, name, <<"static">>, <<"[">> >>
         \o members \o << <<"]">> >>)

\* "set device-group <dg> address-group <name> static [ <members> ]"
DeviceGroupLine(dg, name, members) ==
    Join(<< <<"set">>, <<"device", "-group">>, dg, <<"address", "-group">>, name,
            <<"static">>, <<"[">> >> \o members \o << <<"]">> >>)

\* "set device-group <dg> security-rule <rule> <words>"
DeviceRuleLine(dg, rule, words) ==
    Join(<< <<"set">>, <<"device", "-group">>, dg, <<"security", "-rule">>, rule >> \o words)

\* "set shared pre-rulebase security rules <rule> <words>"
SharedRulesLine(rule, words) ==
    Join(<< <<"set">>, <<"shared">>, <<"pre-rulebase">>, <<"security">>, <<"rules">>, rule >>
         \o words)

\* "set shared address <name> ip-netmask <value>"
SharedAddressLine(name, value) ==
    Join(<< <<"set">>, <<"shared">>, <<"address">>, name, <<"ip-netmask">>, value >>)

\* "set device-group <dg> address <name> ip-netmask <value>"
DeviceAddressLine(dg, name, value) ==
    Join(<< <<"set">>, <<"device", "-group">>, dg, <<"address">>, name, <<"ip-netmask">>,
            value >>)

\* group definitions and rule lines: WEB holds web1 and web2, FRONT holds WEB, EDGE holds
\* FRONT, WEB is defined a second time in a device group, rules name WEB, web1 and FRONT
GroupLines ==
    { SharedGroupLine(WEB, <<web1, web2>>),
      SharedGroupLine(FRONT, <<WEB>>),
      DeviceGroupLine(DG1, WEB, <<web2>>),
      SharedGroupLine(EDGE, <<FRONT>>),
      <<SP>> \o DeviceRuleLine(DG1, <<"R1">>, << <<"source">>, WEB >>),
      DeviceRuleLine(DG1, <<"R1">>, << <<"destination">>, web1 >>),
      SharedRulesLine(<<QUOTE, "R", SP, "2", QUOTE>>, << <<"destination">>, FRONT >>) }

\* address definitions: web1 with two values, web2 and db1 sharing them, one line with
\* two blanks after "set", one line with blanks around it
AddressLines ==
    { SharedAddressLine(web1, IP1),
      DeviceAddressLine(DG1, web1, IP2),
      DeviceAddressLine(DG1, web2, IP1),
      SharedAddressLine(db1, IP2),
      <<"set", SP>> \o Tail(SharedAddressLine(db1, IP1)),
      <<SP, SP>> \o SharedAddressLine(web2, IP2) \o <<SP>> }

\* rule lines for the context classification
ContextLines ==
    { DeviceRuleLine(DG1, <<QUOTE, "R1", QUOTE>>,
                     << <<"destination">>, address1, <<"source">>, address2 >>),
      DeviceRuleLine(DG1, <<"R2">>,
                     << <<"source">>, address1, <<"destination">>, address1 >>),
      SharedRulesLine(<<"R3">>, << <<"service">>, address1 >>),
      SharedRulesLine(<<"R4">>, << <<"tag">>, address1 >>),
      DeviceRuleLine(DG1, <<"R5">>,
                     << <<"source">>, address2, <<"destination">>, address2,
                        <<"source">>, address1 >>),
      DeviceRuleLine(DG1, <<"R6">>,
                     << <<"destination">>, address2, <<"service">>, address1 >>),
      Join(<< <<"set">>, <<"shared">>, <<"service", "-group">>, <<"SG1">>, <<"members">>,
              address1 >>) }

\* the number of lines of a file of group definitions and rules
MaxGroupLines == 3

\* the number of lines of a file of address definitions
MaxAddressLines == 4

\* the number of lines of a file of rule lines
MaxContextLines == 2

Init == InitBatch(Files(GroupLines, MaxGroupLines), {<<web1, web2>>, <<web2, web1>>, <<web1>>})

InitRedundant == InitBatch(Files(AddressLines, MaxAddressLines), {<<web1, web2>>})

InitContext == InitBatch(Files(ContextLines, MaxContextLines), {<<address1, address2>>})

\* a group name that holds the keyword "static"
STATICWEB == <<"static", "-web">>

\* a small configuration: two groups that hold web1, one of them with "static" in its
\* name, a group that holds WEB, a rule that names WEB, the definition of web1 and an
\* address with the same value
MainLines ==
    { SharedGroupLine(WEB, <<web1>>),
      DeviceGroupLine(DG1, STATICWEB, <<web1>>),
      SharedGroupLine(FRONT, <<WEB>>),
      DeviceRuleLine(DG1, <<"R1">>, << <<"source">>, WEB >>),
      SharedAddressLine(web1, IP1),
      SharedAddressLine(db1, IP1) }

\* the number of lines of a file of the small configuration
MaxMainLines == 2

InitMain == InitMainOn(Files(MainLines, MaxMainLines), {<<web1, db1>>})

\* the number of lines of a file whose results are queried
MaxQueryLines == 2

InitQuery == InitBatch(Files(MainLines, MaxQueryLines), {<<web1, web2>>, <<web1>>})

\* a configuration in which every stage has work for two targets: two addresses with
\* one value, a group that holds both (written with blanks around it), a group that
\* holds that group, a rule that names it as source, a rule that names it as destination
\* and as source, and a line of blanks
OrderLines ==
    { SharedAddressLine(web1, IP1),
      DeviceAddressLine(DG1, web2, IP1),
      <<SP, SP>> \o SharedGroupLine(WEB, <<web1, web2>>) \o <<SP>>,
      SharedGroupLine(FRONT, <<WEB>>),
      DeviceRuleLine(DG1, <<"R1">>, << <<"source">>, WEB >>),
      DeviceRuleLine(DG1, <<"R2">>, << <<"destination">>, WEB, <<"source">>, WEB >>),
      <<SP>> }

\* the number of lines of a file of that configuration
MaxOrderLines == 3

InitOrder == InitBatch(Files(OrderLines, MaxOrderLines), {<<web1, web2>>})

\* runs over group definitions and rule lines
Spec == Init /\ [][Next]_vars

\* runs in which two targets are iterated in either order
SpecOrder == InitOrder /\ [][Next]_vars

\* runs with failures, followed by main
SpecMain == InitMain /\ [][NextMain]_vars

\* runs followed by calls of format_results
SpecQuery == InitQuery /\ [][NextQuery]_vars

\* runs over address definitions
SpecRedundant == InitRedundant /\ [][Next]_vars

\* runs over rule lines with destination, source and service fields
SpecContext == InitContext /\ [][Next]_vars

(***************************************************************************)
(* Properties                                                              *)
(***************************************************************************)

\* the target addresses as a set
Targets == {addresses[i] : i \in 1..Len(addresses)}

\* the i-th line of the file as the stages see it
LineAt(i) == Strip(file[i])

\* the names of the descriptors attached to a target
GroupNamesOf(t) ==
    {Rec(results, t).address_groups[i].name : i \in 1..Len(Rec(results, t).address_groups)}

\* the place of the first descriptor named g in the groups of t
FirstGroupIndex(t, g) ==
    Min({i \in 1..Len(Rec(results, t).address_groups) :
            Rec(results, t).address_groups[i].name = g})

\* what each line of the file defines as an address group: None, or Some of the group
\* name, the set of its member tokens and the line
GroupDefs ==
    [i \in 1..Len(file) |->
        LET g == ExtractAddressGroup(LineAt(i))
            m == ParseGroupMembers(g[1].definition)
        IN  IF g = None THEN None
            ELSE Some([name |-> g[1].name, members |-> {m[k] : k \in 1..Len(m)},
                       line |-> LineAt(i)])]

\* the rule name on each line of the file that can name a rule: None or Some(name)
RuleNames == [i \in 1..Len(file) |-> IF IsRuleLine(LineAt(i)) THEN RuleName(LineAt(i)) ELSE None]

\* C1: for every address, no rule name is a key of both direct_rules and
\* indirect_rules.
C1_MutualExclusion ==
    \A t \in DOMAIN results :
        DictKeys(results[t].direct_rules) \cap DictKeys(results[t].indirect_rules) = {}

\* C1 witness: a finished run in which the only target is in a group, a rule line names
\* that group and not the target, and its rule is already a direct rule of the target,
\* so the resolver met the rule and left it out.
C1_Witness ==
    /\ pc = "done"
    /\ Len(addresses) = 1
    /\ \E i \in 1..Len(file) :
          /\ RuleNames[i] # None
          /\ DictHas(Rec(results, addresses[1]).direct_rules, RuleNames[i][1])
          /\ \E g \in GroupNamesOf(addresses[1]) : Contains(LineAt(i), g)
          /\ ~Contains(LineAt(i), addresses[1])

\* C2: in every state of a run the address_groups of every address hold no two
\* descriptors with the same name.
C2_NoDuplicateGroupNames ==
    \A t \in DOMAIN results :
        \A i, j \in 1..Len(results[t].address_groups) :
            results[t].address_groups[i].name = results[t].address_groups[j].name => i = j

\* C4: when a definition line of G2 lists target X as a member token and a definition
\* line of G1 lists G2 as a member token, then after the run X's address_groups hold a
\* descriptor named G2 and one named G1, G2 first when G2's line comes first.
C4_OneLevelNesting ==
    pc = "done" =>
        LET defs == GroupDefs
        IN  \A x \in Targets : \A i, j \in 1..Len(file) :
                (/\ defs[i] # None
                 /\ defs[j] # None
                 /\ x \in defs[i][1].members
                 /\ defs[i][1].name \in defs[j][1].members)
                => /\ defs[i][1].name \in GroupNamesOf(x)
                   /\ defs[j][1].name \in GroupNamesOf(x)
                   /\ (i < j /\ defs[i][1].name # defs[j][1].name)
                      => FirstGroupIndex(x, defs[i][1].name) < FirstGroupIndex(x, defs[j][1].name)

\* the lines that define a group named g
GroupLinesOf(defs, g) == {i \in DOMAIN defs : defs[i] # None /\ defs[i][1].name = g}

\* g1 holds only g2, g2 holds only g3, g3 holds x (on every definition line of each),
\* and the name of x occurs on no definition line of g1 or g2
ThreeLevelChain(defs, g1, g2, g3, x) ==
    /\ GroupLinesOf(defs, g1) # {}
    /\ GroupLinesOf(defs, g2) # {}
    /\ GroupLinesOf(defs, g3) # {}
    /\ \A i \in GroupLinesOf(defs, g1) :
          defs[i][1].members = {g2} /\ ~Contains(defs[i][1].line, x)
    /\ \A i \in GroupLinesOf(defs, g2) :
          defs[i][1].members = {g3} /\ ~Contains(defs[i][1].line, x)
    /\ \A i \in GroupLinesOf(defs, g3) : x \in defs[i][1].members

\* the three-level chains of the file: <<g1, g2, g3, x>> with x a target
ThreeLevelChains ==
    LET defs == GroupDefs
        names == {defs[i][1].name : i \in {k \in DOMAIN defs : defs[k] # None}}
    IN  {c \in names \X names \X names \X Targets : ThreeLevelChain(defs, c[1], c[2], c[3], c[4])}

\* C5 as stated: for a three-level chain G1 > G2 > G3 > X, after the run X's
\* address_groups hold G3 and hold neither G1 nor G2.
C5_Original ==
    pc = "done" =>
        \A c \in ThreeLevelChains :
            /\ c[3] \in GroupNamesOf(c[4])
            /\ c[1] \notin GroupNamesOf(c[4])
            /\ c[2] \notin GroupNamesOf(c[4])

\* C5 amended: for a three-level chain G1 > G2 > G3 > X, after the run X's
\* address_groups hold G3 and G2 (G2 by one level of nesting) and do not hold G1.
C5_ThreeLevelChain ==
    pc = "done" =>
        \A c \in ThreeLevelChains :
            /\ c[3] \in GroupNamesOf(c[4])
            /\ c[2] \in GroupNamesOf(c[4])
            /\ c[1] \notin GroupNamesOf(c[4])

\* C5 witness: a finished run over a file that holds a three-level chain down to a
\* target.
C5_Witness == pc = "done" /\ ThreeLevelChains # {}

\* C10: after the indirect resolver, for every target T and every group G attached to T
\* by the primary scan, every rule line that contains G's name and whose rule is not a
\* direct rule of T has its rule in T's indirect_rules.
C10_IndirectForEveryMember ==
    pc = "nested" =>
        LET rules == RuleNames
        IN  \A t \in Targets : \A g \in GroupNamesOf(t) : \A i \in 1..Len(file) :
                (/\ rules[i] # None
                 /\ Contains(LineAt(i), g)
                 /\ ~DictHas(Rec(results, t).direct_rules, rules[i][1]))
                => DictHas(Rec(results, t).indirect_rules, rules[i][1])

\* the address definition on each line of the file: None or Some(<<name, value>>)
AddressDefs == [i \in 1..Len(file) |-> Search(PATTERNS.ip_netmask, LineAt(i))]

\* the lines that define an address named n
DefLinesOf(defs, n) == {i \in DOMAIN defs : defs[i] # None /\ defs[i][1][1] = n}

\* the IP/netmask values an address named n is defined with
ValuesOf(defs, n) == {defs[i][1][2] : i \in DefLinesOf(defs, n)}

\* the names of the entries of the redundant_addresses of t
RedundantNamesOf(t) ==
    {Rec(results, t).redundant_addresses[i].name :
        i \in 1..Len(Rec(results, t).redundant_addresses)}

\* C3: for every address T, no entry of T's redundant_addresses has name T.
C3_NoSelfRedundant == \A t \in DOMAIN results : t \notin RedundantNamesOf(t)

\* C3 witness: a finished run in which a target is defined on two lines with the same
\* value, so the detector built its list from entries that name the target.
C3_Witness ==
    /\ pc = "done"
    /\ LET defs == AddressDefs
       IN  \E t \in Targets : \E i, j \in DefLinesOf(defs, t) :
              i < j /\ defs[i][1][2] = defs[j][1][2]

\* C6: after the run, for two distinct targets A and B, an entry named A in B's
\* redundant_addresses comes with an entry named B in A's.
C6_RedundancySymmetric ==
    pc = "done" =>
        \A a, b \in Targets :
            (a # b /\ a \in RedundantNamesOf(b)) => b \in RedundantNamesOf(a)

\* C7: after the run, every entry of T's redundant_addresses carries the value of T's
\* own ip_netmask field.
C7_RedundantSameValue ==
    pc = "done" =>
        \A t \in Targets : \A i \in 1..Len(Rec(results, t).redundant_addresses) :
            Some(Rec(results, t).redundant_addresses[i].ip_netmask) = Rec(results, t).ip_netmask

\* the scope C8 expects for a defining line
ExpectedScope(line) ==
    IF StartsWith(line, <<"set", SP, "shared">>) THEN <<"shared">>
    ELSE IF Search(PATTERNS.device_group, line) # None
    THEN Search(PATTERNS.device_group, line)[1][1]
    ELSE <<"Unknown">>

\* the entries C8 expects for target t with value v, from line i to the end of the file
RECURSIVE ExpectedRedundant(_, _, _, _)
ExpectedRedundant(defs, t, v, i) ==
    IF i > Len(defs) THEN <<>>
    ELSE (IF defs[i] # None /\ defs[i][1][1] # t /\ defs[i][1][2] = v
          THEN <<[name |-> defs[i][1][1], ip_netmask |-> v,
                  device_group |-> ExpectedScope(LineAt(i))]>>
          ELSE <<>>)
         \o ExpectedRedundant(defs, t, v, i + 1)

\* C8: after the run, a target defined with exactly one value V has one entry per other
\* address definition line with value V, in file order, with that address's name, V
\* and the scope of the line (the empty list when there is none).
C8_RedundantEntries ==
    pc = "done" =>
        LET defs == AddressDefs
        IN  \A t \in Targets :
                Cardinality(ValuesOf(defs, t)) = 1
                => Rec(results, t).redundant_addresses
                     = ExpectedRedundant(defs, t, CHOOSE v \in ValuesOf(defs, t) : TRUE, 1)

\* C8 witness: a finished run in which a target with one value has two peers, one of
\* them of scope Unknown.
C8_Witness ==
    /\ pc = "done"
    /\ \E t \in Targets :
          /\ Cardinality(ValuesOf(AddressDefs, t)) = 1
          /\ Len(Rec(results, t).redundant_addresses) = 2
          /\ \E i \in 1..2 : Rec(results, t).redundant_addresses[i].device_group = <<"Unknown">>

\* the name occurs in the segment that follows the first kw and ends before the next
\* atom of stops
InSegment(line, name, kw, stops) ==
    /\ Find(line, kw) # 0
    /\ \E p \in Occurrences(line, name) :
          /\ p > Find(line, kw)
          /\ \A q \in (Find(line, kw) + 1)..(p + Len(name) - 1) : line[q] \notin stops

\* the context C9 expects: destination segment first, then source segment, then the
\* text after service, then the plain reference
ExpectedContext(line, name) ==
    IF InSegment(line, name, KwDestination, {"destination", "source"}) THEN CtxDestination
    ELSE IF InSegment(line, name, KwSource, {"destination", "source"}) THEN CtxSource
    ELSE IF InSegment(line, name, KwService, {"service"}) THEN CtxService
    ELSE CtxDirect

\* the scenario line of C9
ScenarioLine ==
    DeviceRuleLine(DG1, <<QUOTE, "R1", QUOTE>>,
                   << <<"destination">>, address1, <<"source">>, address2 >>)

\* C9: the context recorded for the rule of the line just scanned is, for every target
\* on the line, destination-field when the target is in the destination segment (the
\* text from the first "destination" to the next "destination" or "source"), else
\* source-field when it is in the source segment (likewise from the first "source"),
\* else service-field when it follows "service", else direct-reference; a target only
\* in the destination segment is never source-field; on the scenario line address1 is
\* destination-field and address2 source-field for rule R1.
C9_ContextPriority ==
    (pc = "scan" /\ line_num >= 1 /\ RuleName(LineAt(line_num)) # None) =>
        LET line == LineAt(line_num)
            rule == RuleName(line)[1]
        IN  /\ \A t \in Targets :
                  Contains(line, t) =>
                     /\ DictHas(results[t].direct_rule_contexts, rule)
                     /\ DictGet(results[t].direct_rule_contexts, rule) = ExpectedContext(line, t)
                     /\ (/\ InSegment(line, t, KwDestination, {"destination", "source"})
                         /\ ~InSegment(line, t, KwSource, {"destination", "source"}))
                        => DictGet(results[t].direct_rule_contexts, rule) # CtxSource
            /\ line = ScenarioLine =>
                  /\ rule = <<"R1">>
                  /\ DictGet(results[address1].direct_rule_contexts, rule) = CtxDestination
                  /\ DictGet(results[address2].direct_rule_contexts, rule) = CtxSource
                  /\ DictGet(results[address1].direct_rules, rule) = DG1

\* C9 witness: the scan has just classified a line on which a target stands in the
\* source segment and in the destination segment, after it classified the scenario line.
C9_Witness ==
    /\ pc = "scan"
    /\ line_num = 2
    /\ LineAt(1) = ScenarioLine
    /\ InSegment(LineAt(2), address1, KwDestination, {"destination", "source"})
    /\ InSegment(LineAt(2), address1, KwSource, {"destination", "source"})
    /\ RuleName(LineAt(2)) # None

\* the result table a primary scan builds from the lines it consumed
RECURSIVE ScanOf(_, _, _)
ScanOf(res, targets, lines) ==
    IF lines = <<>> THEN res
    ELSE ScanOf(ScanResults(res, targets, Head(lines)), targets, Tail(lines))

\* the primary scan printed one of its two error messages
ScanFailed ==
    \E i \in 1..Len(errors) : errors[i] \in {"Error: File not found.", "Error reading file"}

\* C11: when the file cannot be opened or a read fails during the primary pass,
\* process_file_single_pass returns False, no resolver stage runs (the result table
\* stays what the scan of the consumed lines made it) and main writes no report.
C11_ScanFailure ==
    ScanFailed =>
        /\ pc \in {"failed", "exit"}
        /\ Len(errors) = 1
        /\ results = ScanOf(NoResults, address_set, Slice(file, 1, line_num))
        /\ reports = NoReports
        /\ formatted = None

\* C11 witness: main has ended after a read failed in the primary scan, at a point
\* where a target already had matching lines.
C11_Witness ==
    /\ pc = "exit"
    /\ ScanFailed
    /\ \E t \in DOMAIN results : results[t].matching_lines # <<>>

\* list a is a prefix of list b
IsPrefix(a, b) == Len(a) <= Len(b) /\ Slice(b, 1, Len(a)) = a

\* every fact of record old is still in record new
FactsKept(old, new) ==
    /\ new.matching_lines = old.matching_lines
    /\ old.device_groups \subseteq new.device_groups
    /\ new.direct_rules = old.direct_rules
    /\ new.direct_rule_contexts = old.direct_rule_contexts
    /\ DictKeys(old.indirect_rules) \subseteq DictKeys(new.indirect_rules)
    /\ IsPrefix(old.address_groups, new.address_groups)
    /\ old.nat_rules \subseteq new.nat_rules
    /\ old.service_groups \subseteq new.service_groups
    /\ new.ip_netmask = old.ip_netmask
    /\ new.redundant_addresses = old.redundant_addresses

\* the stage that follows a resolver stage; done stands for "return True"
StageAfter(stage) ==
    IF stage = "redundant" THEN "indirect" ELSE IF stage = "indirect" THEN "nested" ELSE "done"

\* a step in which one of the three resolver stages fails
ResolverFails == RedundantRaises \/ IndirectIndexRaises \/ IndirectFails \/ NestedFails

\* C12: a failure inside any of the three resolver stages is caught: the run goes on
\* with the stage after the failed one (and returns True after the last), and every
\* fact recorded before the failure is still in the result table.
C12_ResolverFailureCaught ==
    [][ResolverFails =>
          /\ pc' = StageAfter(pc)
          /\ \A t \in DOMAIN results :
                t \in DOMAIN results' /\ (pc # "redundant" => FactsKept(results[t], results'[t]))]_vars

\* the part of C12 the handlers at lines 279 and 344 provide: a failure of the re-scan
\* of the indirect resolver or of the nested resolver
CaughtFailuresGoOn ==
    [][(IndirectFails \/ NestedFails) =>
          /\ pc' = StageAfter(pc)
          /\ \A t \in DOMAIN results : t \in DOMAIN results' /\ FactsKept(results[t], results'[t])]_vars

\* the name of t occurs on no line of the file
Unmatched(t) == \A i \in 1..Len(file) : ~Contains(LineAt(i), t)

\* the seven categories of a formatted mapping
SevenCategories ==
    <<"Device Groups", "Direct Security Rules", "Indirect Security Rules (via Address Groups)",
      "Address Groups", "NAT Rules", "Service Groups", "Redundant Addresses">>

\* C13: after a successful run every target that occurs on no line has a record with
\* empty matching_lines, no ip_netmask and empty direct_rules, indirect_rules,
\* address_groups, device_groups, nat_rules, service_groups and redundant_addresses,
\* and the mapping format_results returned for it has the seven categories, all empty.
C13_UnmatchedTargetEmpty ==
    pc = "done" =>
        \A t \in Targets :
            Unmatched(t) =>
                /\ t \in DOMAIN results
                /\ results[t].matching_lines = <<>>
                /\ results[t].ip_netmask = None
                /\ results[t].direct_rules = <<>>
                /\ results[t].indirect_rules = <<>>
                /\ results[t].address_groups = <<>>
                /\ results[t].device_groups = {}
                /\ results[t].nat_rules = {}
                /\ results[t].service_groups = {}
                /\ results[t].redundant_addresses = <<>>
                /\ (formatted # None /\ formatted[1][1] = t) =>
                      /\ Len(formatted[1][2]) = 7
                      /\ \A k \in 1..7 :
                            /\ formatted[1][2][k][1] = SevenCategories[k]
                            /\ formatted[1][2][k][2] = <<>>

\* C13 witness: after a run in which another target had matching lines, format_results
\* was called for a target that occurs on no line.
C13_Witness ==
    /\ pc = "done"
    /\ formatted # None
    /\ formatted[1][1] \in Targets
    /\ Unmatched(formatted[1][1])
    /\ \E t \in Targets : t \in DOMAIN results /\ results[t].matching_lines # <<>>

\* C16: a call of format_results, for any address name, leaves the result table with
\* the same keys and the same records.
C16_FormatReadOnly == [][FormatResultsCall => results' = results]_vars

\* ip_to_addresses after a primary scan of the lines
RECURSIVE IpMapOf(_, _)
IpMapOf(ip_map, lines) ==
    IF lines = <<>> THEN ip_map ELSE IpMapOf(ScanIpMap(ip_map, Head(lines)), Tail(lines))

\* the result table of the run on a fresh processor in which every set of addresses is
\* iterated in the order of the list
ReferenceRun(lines, addrs) ==
    LET scanned == ScanOf(NoResults, addrs, lines)
        marked == FindRedundantAddresses(scanned, IpMapOf(<<>>, lines), addrs)
        resolved == FindIndirectRules(marked, lines, addrs)
    IN  FindNestedAddressGroups(resolved, lines, addrs,
                                [k \in 1..Len(Catalogue(<<>>, lines)) |-> addrs])

\* C14: the records a run ends with do not depend on the order in which the primary
\* scan, the redundancy detector and the nested resolver iterate the set of targets:
\* every run on a fresh processor ends with the table of the run that iterates in list
\* order, so two runs over the same lines and targets end with identical records.
C14_Deterministic == pc = "done" => results = ReferenceRun(file, addresses)

\* C14 witness: a finished run that iterated the targets against the order of the list,
\* in which both targets got groups and one of them a redundant peer.
C14_Witness ==
    /\ pc = "done"
    /\ address_set # addresses
    /\ \A t \in Targets : Rec(results, t).address_groups # <<>>
    /\ \E t \in Targets : Rec(results, t).redundant_addresses # <<>>

\* the trimmed, non-empty lines of the file that contain the name t, in file order
RECURSIVE LinesContaining(_, _)
LinesContaining(lines, t) ==
    IF lines = <<>> THEN <<>>
    ELSE (IF Strip(Head(lines)) # <<>> /\ Contains(Strip(Head(lines)), t)
          THEN <<Strip(Head(lines))>> ELSE <<>>)
         \o LinesContaining(Tail(lines), t)

\* C15: after a successful run on a fresh processor the matching_lines of every target
\* T is the sequence of the trimmed, non-empty lines that contain T's name, in file
\* order, a repeated line as often as it occurs.
C15_MatchingLines ==
    pc = "done" => \A t \in Targets : Rec(results, t).matching_lines = LinesContaining(file, t)

\* C15 witness: a finished run over a file in which a line written with blanks around
\* it occurs twice and contains a target.
C15_Witness ==
    /\ pc = "done"
    /\ \E i, j \in 1..Len(file) :
          /\ i < j
          /\ file[i] = file[j]
          /\ file[i] # Strip(file[i])
          /\ \E t \in Targets : Contains(file[i], t)

\* the command the report round trip is to give for one descriptor
ExpectedCommand(group, new_address) ==
    (IF group.context = "shared" THEN SetSharedText
     ELSE SetDeviceGroupText \o <<SP>> \o group.device_group[1])
    \o <<SP>> \o AddressGroupText \o <<SP>> \o group.name \o <<SP, "member", SP>> \o new_address

ExpectedCommands(groups, new_address) ==
    [i \in 1..Len(groups) |-> ExpectedCommand(groups[i], new_address)]

\* C17: the commands generate_add_commands returns for a report are, in order, one
\* command per descriptor of the Address Groups category of the address the report
\* was written for: "set shared address-group <name> member <new>" for a shared group,
\* "set device-group <dg> address-group <name> member <new>" for a scoped one.
C17_ReportRoundTrip ==
    commands # None =>
        \E t \in DOMAIN results, new_address \in NewAddresses :
            /\ ~NoMatches(results, t)
            /\ commands[1] = ExpectedCommands(results[t].address_groups, new_address)

\* the file without its i-th line
DropLine(lines, i) == Slice(lines, 1, i - 1) \o Slice(lines, i + 1, Len(lines))

\* the names of the groups the primary scan attaches to t: the groups defined on a line
\* that contains the name of t
ScanGroupNames(t) ==
    {GroupDefs[i][1].name : i \in {k \in 1..Len(file) : GroupDefs[k] # None /\ Contains(LineAt(k), t)}}

\* the names of the groups t has at the end of the run that the scan did not attach
NestedOnlyNames(t) ==
    {Rec(results, t).address_groups[k].name : k \in 1..Len(Rec(results, t).address_groups)}
        \ ScanGroupNames(t)

\* line i is a security-rule line that names a group t has from the nested resolver
\* only, and contains neither the name of t nor the name of a group the scan attached
NamesOnlyNestedGroup(i, t) ==
    /\ IsRuleLine(LineAt(i))
    /\ \E g \in NestedOnlyNames(t) : Contains(LineAt(i), g)
    /\ ~Contains(LineAt(i), t)
    /\ \A g \in ScanGroupNames(t) : ~Contains(LineAt(i), g)

\* C18: a security-rule line that names a group attached to T by the nested resolver
\* only, and contains neither T's name nor the name of a group whose definition line
\* contains T's name, adds no entry to T's indirect_rules: the indirect facts of T at
\* the end of the run are those of the run over the file without that line.
C18_NestedGroupsUnseen ==
    pc = "done" =>
        \A t \in Targets : \A i \in 1..Len(file) :
            NamesOnlyNestedGroup(i, t) =>
                LET without == Rec(ReferenceRun(DropLine(file, i), addresses), t)
                IN  /\ Rec(results, t).indirect_rules = without.indirect_rules
                    /\ Rec(results, t).indirect_rule_contexts = without.indirect_rule_contexts

\* C18 witness: a finished run over a file with such a line for a target, while the
\* indirect resolver had indexed groups to look for.
C18_Witness ==
    /\ pc = "done"
    /\ \E t \in Targets : \E i \in 1..Len(file) :
          NamesOnlyNestedGroup(i, t) /\ ScanGroupNames(t) # {}

\* the rule name the classifier reads from line i, None when it reads none
RuleNameAt(i) == ExtractSecurityRule(LineAt(i), <<>>).rule_name

\* line i is the one rule line of the file with its rule name
OnlyLineOfRule(i) ==
    /\ IsRuleLine(LineAt(i))
    /\ RuleNameAt(i) # None
    /\ \A j \in 1..Len(file) : (IsRuleLine(LineAt(j)) /\ RuleNameAt(j) = RuleNameAt(i)) => j = i

\* the group name g occurs in line i after the keyword kw
NamedAfter(i, kw, g) == Contains(LineAt(i), kw) /\ Contains(AfterFirst(LineAt(i), kw), g)

\* the explanation t's record holds for the rule of line i is about the group g
ExplainsGroup(t, i, g) ==
    /\ OnlyLineOfRule(i)
    /\ DictHas(Rec(results, t).indirect_rule_contexts, RuleNameAt(i)[1])
    /\ Contains(DictGet(Rec(results, t).indirect_rule_contexts, RuleNameAt(i)[1]), g)
    /\ Contains(LineAt(i), g)

\* C19: the usage annotations of an indirect rule are evaluated independently: when the
\* group name occurs after "destination" and after "source", the explanation carries
\* "(in destination)" and "(in source)"; when it occurs only after "source", it carries
\* "(in source)".
C19_AnnotationsIndependent ==
    pc = "done" =>
        \A t \in Targets : \A i \in 1..Len(file) : \A g \in ScanGroupNames(t) :
            ExplainsGroup(t, i, g) =>
                LET context == DictGet(Rec(results, t).indirect_rule_contexts, RuleNameAt(i)[1])
                IN  /\ (NamedAfter(i, KwDestination, g) /\ NamedAfter(i, KwSource, g))
                          => /\ Contains(context, <<" (in destination)">>)
                             /\ Contains(context, <<" (in source)">>)
                    /\ (NamedAfter(i, KwSource, g) /\ ~NamedAfter(i, KwDestination, g))
                          => Contains(context, <<" (in source)">>)

\* C20: substring admission is the sole filter of the primary scan: the step that
\* processes a line without T's name leaves T's record as it was, every field of it,
\* and creates no record for T, whatever the line carries for other targets.
C20_AdmissionFrame ==
    [][\A t \in Targets :
          (ScanLine /\ ~Contains(file[line_num + 1], t))
              => /\ Rec(results', t) = Rec(results, t)
                 /\ (t \in DOMAIN results') = (t \in DOMAIN results)]_vars

\* C20 witness: the scan has just processed a line that holds a fact for one target
\* and not the name of another target, which already had a record.
C20_Witness ==
    /\ pc = "scan"
    /\ line_num >= 2
    /\ \E t, u \in Targets :
          /\ ~Contains(file[line_num], t)
          /\ Rec(results, t).matching_lines # <<>>
          /\ Contains(file[line_num], u)
          /\ Rec(results, u).matching_lines[Len(Rec(results, u).matching_lines)]
                = Strip(file[line_num])
          /\ Rec(results, u).ip_netmask # None

\* the stages of process_file_single_pass in the order of its calls
StageOrder == <<"scan", "redundant", "indirect", "nested">>

\* the stages that have started when the run is at pc
StagesAt(stage) ==
    CASE stage = "redundant" -> Slice(StageOrder, 1, 1)
      [] stage = "indirect" -> Slice(StageOrder, 1, 2)
      [] stage = "nested" -> Slice(StageOrder, 1, 3)
      [] stage = "done" -> StageOrder
      [] OTHER -> IF line_num = 0 THEN <<>> ELSE Slice(StageOrder, 1, 1)

\* C21: in a successful run the stages run strictly in sequence: primary scan,
\* redundancy detector, indirect resolver, nested resolver; each starts when the one
\* before has finished and no handle on the configuration file is open, at no point
\* are two handles open, and the file is opened at most three times.
C21_StagesInSequence ==
    /\ handles.stages = StagesAt(pc)
    /\ ~handles.overlap
    /\ handles.most <= 1
    /\ handles.opens <= 3
    /\ handles.open = IF pc = "scan" /\ line_num > 0 THEN <<"scan">> ELSE <<>>

\* C21 witness: a run that returned True after three passes over a file of several
\* lines, the indirect resolver having found a rule.
C21_Witness ==
    /\ pc = "done"
    /\ handles.opens = 3
    /\ Len(file) >= 2
    /\ \E t \in Targets : Rec(results, t).indirect_rules # <<>>

\* the text holds a report write_results can write for the address t
HoldsReportOf(text, t) ==
    \E dgs \in ListsOf(results[t].device_groups),
       nats \in ListsOf(results[t].nat_rules),
       sgs \in ListsOf(results[t].service_groups) :
       Contains(text, WriteResults(t, results[t].matching_lines,
                                   FormatResults(results[t], dgs, nats, sgs)))

\* main has called process_address for every address with the single combined output
\* file, and every write succeeded
CombinedDone ==
    /\ Len(addresses) > 1
    /\ interactive_mode
    /\ use_single_file
    /\ addr_num = Len(addresses)
    /\ \A k \in 1..Len(errors) : errors[k] # "Error writing to output file"

\* C22: in multi-address mode with the single combined output file, once
\* process_address was called for every address, the combined file holds the report
\* of every address that had matching lines.
C22_CombinedFileHoldsAll ==
    CombinedDone =>
        \A t \in Targets :
            ~NoMatches(results, t) =>
                /\ <<"multiple_addresses_results.yml">> \in DOMAIN reports
                /\ HoldsReportOf(reports[<<"multiple_addresses_results.yml">>], t)

\* the rendering of a rule map does not use the default context text
NoFallback(rules, contexts) ==
    FormatRules(rules, contexts, <<"direct reference">>)
        = FormatRules(rules, contexts, <<"indirect reference">>)

\* C23: in every state of a run, for every address with a record, direct_rules and
\* direct_rule_contexts have the same keys, indirect_rules and indirect_rule_contexts
\* have the same keys, and the rendering of format_results never uses its default
\* context text.
C23_RuleMapsAligned ==
    \A t \in DOMAIN results :
        /\ DictKeys(results[t].direct_rules) = DictKeys(results[t].direct_rule_contexts)
        /\ DictKeys(results[t].indirect_rules) = DictKeys(results[t].indirect_rule_contexts)
        /\ NoFallback(results[t].direct_rules, results[t].direct_rule_contexts)
        /\ NoFallback(results[t].indirect_rules, results[t].indirect_rule_contexts)

\* C23 witness: a finished run in which a target has a direct rule and a target has an
\* indirect rule.
C23_Witness ==
    /\ pc = "done"
    /\ \E t \in DOMAIN results : results[t].direct_rules # <<>>
    /\ \E t \in DOMAIN results : results[t].indirect_rules # <<>>

====
